---------------------------- MODULE Spec2Model ----------------------------
(***************************************************************************)
(* FamAnalysis (main.py): ingestion of a csv batch into the protein /      *)
(* mutation store (build_db, create_new_records) and AlphaMissense scoring *)
(* of the stored mutations in chunks (calc_mutations_afm_scores, main).    *)
(*                                                                         *)
(* Row indices are pandas' 0-based labels shifted by one (1..n).           *)
(* Protein, Mutation, Analyze.ProteinAnalyzer, afm_iterator and            *)
(* adaptive_chunksize are imported by main.py; their definitions here      *)
(* follow the specification's description of the store and the scanner.    *)
(***************************************************************************)
EXTENDS Integers, Sequences, FiniteSets, TLC

\* ------------------------------------------------------------- bounds
MaxRows == 3
Workers == 2
MaxData == 2
MaxChunk == 2
MaxCalls == 2
MaxRuns == 2

\* ---------------------------------------------------------- value sets
Keys == {"X", "Y"}
\* an empty protein cell, read by pandas as NaN
NaN == "NaN"
Descs == {"d1", "d2"}
\* what the external collaborators do with a row:
\*   ok         Protein() and add_mut succeed
\*   p_timeout  Protein() raises TimeoutError (when it is called for the row)
\*   m_timeout  add_mut raises TimeoutError before the mutation file exists
\*   m_timeout_file  add_mut raises TimeoutError after writing the file
\*   m_error    add_mut raises another exception (malformed descriptor)
Fates == {"ok", "p_timeout", "m_timeout", "m_timeout_file", "m_error"}
NO_SCORE == "-1.0"

VARIABLES
    rows,       \* the DataFrame read from the csv: sequence of [key, desc, fate]
    tasks,      \* build_db's tasks: sequence of sequences of row indices
    tst,        \* per task: [pc, pos, created, skipped, failed]
    proteins,   \* persisted protein records (DB/test_p/<gene>)
    muts,       \* persisted mutation records: <<gene, desc>> -> AFM score
    bpc,        \* build_db's position
    skipped,    \* build_db's aggregated report
    overlap,    \* history: two tasks have been running at the same time
    dataset,    \* the AlphaMissense table: sequence of [uid, variant, score]
    chunksize,  \* int(chunksize), the rows per chunk given to afm_iterator
    spc,        \* main's position in the score-AFM action
    scanpos,    \* rows the current afm_iterator has yielded so far
    chunk,      \* main's loop variable: [lo, hi] of the chunk it is bound to
    iter_num,   \* main's iter_num
    total_scores, \* main's total_scores
    total_iter, \* main's total_iter
    log,        \* history: the chunks fetched and matched, in order
    directResolved, \* history: the mutations resolved when the direct pass ended
    call,       \* history: the last calc_mutations_afm_scores call
    repeated,   \* history: the last call repeated the arguments of the one before
    ncalls,     \* history: number of calls made
    cmds,       \* the command lines the program is run with, one run each
    run,        \* the number of the run in progress
    acts,       \* the actions of args.action main's loop has not reached
    mpc,        \* main's position in the run
    ran         \* history: the actions this run carried out to their end

\* the variables of main's loop over args.action
mvars == <<cmds, run, acts, mpc, ran>>
\* the variables of the scoring side, untouched by ingestion
scvars == <<dataset, chunksize, spc, scanpos, chunk, iter_num, total_scores,
            total_iter, log, directResolved, call, repeated, ncalls, mvars>>
\* the variables of ingestion that scoring leaves alone
ingvars == <<rows, tasks, tst, bpc, skipped, overlap, mvars>>
vars == <<rows, tasks, tst, proteins, muts, bpc, skipped, overlap, dataset,
          chunksize, spc, scanpos, chunk, iter_num, total_scores, total_iter,
          log, directResolved, call, repeated, ncalls, cmds, run, acts, mpc,
          ran>>

\* ------------------------------------------------------------ helpers
Range(s) == {s[i] : i \in 1..Len(s)}

\* df.index: the row labels in file order
Index(df) == [i \in 1..Len(df) |-> i]

\* the list of the last task alone
FlattenLast(ss) == IF ss = <<>> THEN <<>> ELSE ss[Len(ss)]

RECURSIVE Flatten(_)
Flatten(ss) == IF ss = <<>> THEN <<>> ELSE Head(ss) \o Flatten(Tail(ss))

\* ------------------------------------------------- build_db partition
\* Series.duplicated(keep=False): NaN cells count as duplicates of each other
duplicated(df, i) == \E j \in 1..Len(df) : j # i /\ df[j].key = df[i].key

\* Series.unique(): values in order of first appearance, NaN included once
RECURSIVE unique(_, _)
unique(df, idxs) ==
    IF idxs = <<>> THEN <<>>
    ELSE LET rest == unique(df, SelectSeq(Tail(idxs),
                              LAMBDA j : df[j].key # df[Head(idxs)].key))
         IN  <<df[Head(idxs)].key>> \o rest

\* data[data[protein_col] == value].iterrows(): NaN == NaN is False
values_iter(df, value, idxs) ==
    SelectSeq(idxs, LAMBDA j : df[j].key # NaN /\ value # NaN /\ df[j].key = value)

unique_rows(df) == SelectSeq(Index(df), LAMBDA i : ~duplicated(df, i))
repeating_rows(df) == SelectSeq(Index(df), LAMBDA i : duplicated(df, i))

TasksOf(df, idxs) ==
    LET vals == unique(df, idxs)
    IN  [k \in 1..Len(vals) |-> values_iter(df, vals[k], idxs)]

\* a partition that hands every row to the pool as a task of its own
TasksPerRow(df) == [k \in 1..Len(df) |-> IF df[k].key = NaN THEN <<>> ELSE <<k>>]

\* tasks = tasks_repeating + tasks_unique
Tasks(df) == TasksOf(df, repeating_rows(df)) \o TasksOf(df, unique_rows(df))

\* ------------------------------------------------------ the store
\* Protein(ref_name=gene): upsert the subject record
UpsertProtein(P, gene) == P \cup {gene}
\* protein.add_mut(desc, dna): the variant record, created with NO_SCORE
AppendVariant(M, gene, desc) ==
    [m \in DOMAIN M \cup {<<gene, desc>>} |->
        IF m \in DOMAIN M THEN M[m] ELSE NO_SCORE]
RemoveVariant(M, gene, desc) == [m \in DOMAIN M \ {<<gene, desc>>} |-> M[m]]

\* ------------------------------------------------ create_new_records
NewTask == [pc |-> "queued", pos |-> 0, created |-> FALSE,
            skipped |-> <<>>, failed |-> {}]

CurRow(t) == rows[tasks[t][tst[t].pos]]
CurIdx(t) == tasks[t][tst[t].pos]

\* the for loop moves to the next (idx, row) or ends and returns skipped
Advance(s, t) ==
    IF s.pos >= Len(tasks[t])
    THEN [s EXCEPT !.pc = "done"]
    ELSE [s EXCEPT !.pc = "row", !.pos = s.pos + 1]

Running == {t \in 1..Len(tasks) :
               tst[t].pc \in {"row", "addmut", "rm_p", "rm_m"}}
Finished(t) == tst[t].pc \in {"done", "crashed"}

\* a pool thread takes the next task of the queue (starmap's chunks hold one
\* task each as long as len(tasks) <= 4 * workers)
StartTask(t) ==
    /\ bpc = "pool"
    /\ tst[t].pc = "queued"
    /\ \A u \in 1..(t - 1) : tst[u].pc # "queued"
    /\ Cardinality(Running) < Workers
    /\ tst' = [tst EXCEPT ![t] = Advance(tst[t], t)]
    /\ overlap' = (overlap \/ (Running # {} /\ Len(tasks[t]) > 0))
    /\ UNCHANGED <<rows, tasks, proteins, muts, bpc, skipped, scvars>>

\* line 161: Protein(ref_name=gene) if not created_protein
CreateProtein(t) ==
    /\ bpc = "pool"
    /\ tst[t].pc = "row"
    /\ ~tst[t].created
    /\ LET r == CurRow(t) IN
       CASE r.fate = "p_timeout" ->
              /\ tst' = [tst EXCEPT ![t].pc = "rm_p",
                                    ![t].failed = @ \cup {CurIdx(t)}]
              /\ UNCHANGED proteins
         [] OTHER ->
              /\ proteins' = UpsertProtein(proteins, r.key)
              /\ tst' = [tst EXCEPT ![t].pc = "addmut", ![t].created = TRUE]
    /\ UNCHANGED <<rows, tasks, muts, bpc, skipped, overlap, scvars>>

\* line 163: protein.add_mut(mut_desc, dna)
AddMut(t) ==
    /\ bpc = "pool"
    /\ \/ tst[t].pc = "addmut"
       \/ tst[t].pc = "row" /\ tst[t].created
    /\ LET r == CurRow(t) IN
       CASE r.fate = "m_timeout" ->
              /\ tst' = [tst EXCEPT ![t].pc = "rm_p",
                                    ![t].failed = @ \cup {CurIdx(t)}]
              /\ UNCHANGED muts
         [] r.fate = "m_timeout_file" ->
              /\ muts' = AppendVariant(muts, r.key, r.desc)
              /\ tst' = [tst EXCEPT ![t].pc = "rm_p",
                                    ![t].failed = @ \cup {CurIdx(t)}]
         [] r.fate = "m_error" ->
              /\ tst' = [tst EXCEPT ![t].pc = "crashed",
                                    ![t].failed = @ \cup {CurIdx(t)}]
              /\ UNCHANGED muts
         [] OTHER ->
              /\ muts' = AppendVariant(muts, r.key, r.desc)
              /\ tst' = [tst EXCEPT ![t] = Advance(tst[t], t)]
    /\ UNCHANGED <<rows, tasks, proteins, bpc, skipped, overlap, scvars>>

\* line 166, in the TimeoutError handler: os.remove(DB\test_p\<gene>);
\* FileNotFoundError leaves the handler and the function
RemoveProteinFile(t) ==
    /\ bpc = "pool"
    /\ tst[t].pc = "rm_p"
    /\ IF CurRow(t).key \in proteins
       THEN /\ proteins' = proteins \ {CurRow(t).key}
            /\ tst' = [tst EXCEPT ![t].pc = "rm_m"]
       ELSE /\ tst' = [tst EXCEPT ![t].pc = "crashed"]
            /\ UNCHANGED proteins
    /\ UNCHANGED <<rows, tasks, muts, bpc, skipped, overlap, scvars>>

\* lines 167-168: os.remove(DB\test_m\<gene>_<mut_desc>.txt); skipped.append(idx)
RemoveMutFile(t) ==
    /\ bpc = "pool"
    /\ tst[t].pc = "rm_m"
    /\ LET r == CurRow(t) IN
       IF <<r.key, r.desc>> \in DOMAIN muts
       THEN /\ muts' = RemoveVariant(muts, r.key, r.desc)
            /\ tst' = [tst EXCEPT ![t] =
                         Advance([tst[t] EXCEPT !.skipped = Append(@, CurIdx(t))], t)]
       ELSE /\ tst' = [tst EXCEPT ![t].pc = "crashed"]
            /\ UNCHANGED muts
    /\ UNCHANGED <<rows, tasks, proteins, bpc, skipped, overlap, scvars>>

\* ------------------------------------------------------------ build_db
\* lines 174-187: read the csv and build the per-protein tasks
BuildTasks ==
    /\ bpc = "start"
    /\ tasks' = Tasks(rows)
    /\ tst' = [t \in 1..Len(Tasks(rows)) |-> NewTask]
    /\ bpc' = "pool"
    /\ UNCHANGED <<rows, proteins, muts, skipped, overlap, scvars>>

\* lines 190-201: starmap returns the statuses in task order once every task
\* has ended, or re-raises the first exception of a task
PoolReturns ==
    /\ bpc = "pool"
    /\ \A t \in 1..Len(tasks) : tst[t].pc = "done"
    /\ skipped' = Flatten([t \in 1..Len(tasks) |-> tst[t].skipped])
    /\ bpc' = "returned"
    /\ UNCHANGED <<rows, tasks, tst, proteins, muts, overlap, scvars>>

PoolRaises ==
    /\ bpc = "pool"
    /\ \A t \in 1..Len(tasks) : Finished(t)
    /\ \E t \in 1..Len(tasks) : tst[t].pc = "crashed"
    /\ bpc' = "raised"
    /\ UNCHANGED <<rows, tasks, tst, proteins, muts, skipped, overlap, scvars>>

\* ============================================================ scoring
\* Mutation.update_score is handed None when no row matched
None == "None"
NoChunk == [lo |-> 0, hi |-> 0]
NoCall == [lo |-> 0, hi |-> 0, use_alias |-> FALSE, recalc |-> FALSE,
           tasks |-> {}, ret |-> 0]

\* the external identifiers of the subjects: primary uid and reviewed aliases
UIDs == {"uX", "uY", "aY"}
Uid == [g \in Keys |-> IF g = "X" THEN "uX" ELSE "uY"]
Aliases == [g \in Keys |-> IF g = "X" THEN {} ELSE {"aY"}]
AfmScores == {"0.1", "0.9"}
DataRow == [uid : UIDs, variant : Descs, score : AfmScores]
\* the mutations a scored database may hold
DBVariants == {<<"X", "d1">>, <<"X", "d2">>, <<"Y", "d1">>}

\* lines 19-31: the mutations of every protein found under PROTEIN_PATH
all_mutations(P, M) == {m \in DOMAIN M : m[1] \in P}

\* Mutation.has_afm: the mutation holds an AFM score
has_afm(M, m) == M[m] \notin {NO_SCORE, None}

Resolved(P, M) == {m \in all_mutations(P, M) : has_afm(M, m)}

\* the task list of a call that re-scores every mutation
AllTasks(P, M, recalc) == all_mutations(P, M)

\* lines 217-220: every mutation with recalc, else those without a score
CalcTasks(P, M, recalc) ==
    IF recalc THEN all_mutations(P, M)
    ELSE {m \in all_mutations(P, M) : ~has_afm(M, m)}

\* line 223: set(chunk['uniprot_id'].unique())
uid_index(ch) == {ch[k].uid : k \in 1..Len(ch)}

\* the identifiers a mutation is looked up under
LookupIds(m, use_alias) ==
    IF use_alias THEN {Uid[m[1]]} \cup Aliases[m[1]] ELSE {Uid[m[1]]}

\* ProteinAnalyzer.score_mutation_afm: the score of the first row of the chunk
\* under one of the mutation's identifiers with its descriptor, else None
score_mutation_afm(m, ch, uidx, use_alias) ==
    LET hits == {k \in 1..Len(ch) :
                    /\ ch[k].uid \in LookupIds(m, use_alias) \cap uidx
                    /\ ch[k].variant = m[2]}
    IN  IF hits = {} THEN None
        ELSE ch[CHOOSE k \in hits : \A j \in hits : k <= j].score

\* Mutation.update_score('AFM', score): set the model's score on the record
update_score(M, m, score) == [M EXCEPT ![m] = score]

\* a call that counts every task, matched or not, as successful
calc_counting_tasks(P, M, ch, use_alias, recalc) ==
    LET tsk == CalcTasks(P, M, recalc)
        uidx == uid_index(ch)
        sc(m) == score_mutation_afm(m, ch, uidx, use_alias)
    IN  [muts |-> [m \in DOMAIN M |->
                     IF m \in tsk THEN update_score(M, m, sc(m))[m] ELSE M[m]],
         tasks |-> tsk,
         successful |-> Cardinality(tsk)]

\* lines 216-229: the whole call; the new store and the returned count
calc_mutations_afm_scores(P, M, ch, use_alias, recalc) ==
    LET tsk == CalcTasks(P, M, recalc)
        uidx == uid_index(ch)
        sc(m) == score_mutation_afm(m, ch, uidx, use_alias)
    IN  [muts |-> [m \in DOMAIN M |->
                     IF m \in tsk THEN update_score(M, m, sc(m))[m] ELSE M[m]],
         tasks |-> tsk,
         successful |-> Cardinality({m \in tsk : sc(m) # None})]

Chunk(c) == SubSeq(dataset, c.lo, c.hi)

\* afm_iterator: a new scanner starts at row 0 of the table
FreshScanner == 0
\* an alias pass that went on with the scanner of the direct pass
ReusedScanner(pos) == pos
\* line 255: the alias pass asks afm_iterator for a scanner of its own
AliasScanner(pos) == FreshScanner

\* the scanner yields the next chunk of at most chunksize rows
Min(a, b) == IF a < b THEN a ELSE b

NextChunk(pos) == [lo |-> pos + 1, hi |-> Min(pos + chunksize, Len(dataset))]

\* --------------------------------------------- main, action score-AFM
\* definitions.py: the number of rows of the AlphaMissense table
AFM_ROWS == Len(dataset)

\* a total that rounds the quotient down
FloorIter(n, c) == n \div c
\* line 245: ceil(AFM_ROWS / chunksize)
TotalIter(n, c) == IF n % c = 0 THEN n \div c ELSE n \div c + 1

\* lines 242-248: analyzer, chunksize, counters, the direct pass's scanner
ScoreStart ==
    /\ spc = "start"
    /\ scanpos' = FreshScanner
    /\ iter_num' = 1
    /\ total_iter' = TotalIter(AFM_ROWS, chunksize)
    /\ total_scores' = 0
    /\ spc' = "direct_fetch"
    /\ UNCHANGED <<proteins, muts, dataset, chunksize, chunk, log,
                   directResolved, call, repeated, ncalls, ingvars>>

\* the for statement asks the scanner for the next chunk, or ends the loop
Fetch(pass, matchpc, endpc) ==
    /\ IF scanpos < Len(dataset)
       THEN /\ chunk' = NextChunk(scanpos)
            /\ scanpos' = NextChunk(scanpos).hi
            /\ log' = Append(log, [ev |-> "fetch", pass |-> pass,
                                   lo |-> NextChunk(scanpos).lo,
                                   hi |-> NextChunk(scanpos).hi])
            /\ spc' = matchpc
       ELSE /\ spc' = endpc
            /\ UNCHANGED <<chunk, scanpos, log>>
    /\ UNCHANGED <<proteins, muts, dataset, chunksize, iter_num, total_scores,
                   total_iter, directResolved, call, repeated, ncalls,
                   ingvars>>

\* the loop body: one calc_mutations_afm_scores call on the bound chunk
Match(pass, use_alias, recalc, fetchpc) ==
    LET res == calc_mutations_afm_scores(proteins, muts, Chunk(chunk),
                                         use_alias, recalc)
    IN  /\ muts' = res.muts
        /\ total_scores' = total_scores + res.successful
        /\ iter_num' = iter_num + 1
        /\ call' = [lo |-> chunk.lo, hi |-> chunk.hi, use_alias |-> use_alias,
                    recalc |-> recalc, tasks |-> res.tasks,
                    ret |-> res.successful]
        /\ ncalls' = ncalls + 1
        /\ log' = Append(log, [ev |-> "match", pass |-> pass,
                               lo |-> chunk.lo, hi |-> chunk.hi])
        /\ spc' = fetchpc
        /\ UNCHANGED <<proteins, dataset, chunksize, scanpos, chunk,
                       total_iter, directResolved, repeated, ingvars>>

\* line 248
DirectFetch == spc = "direct_fetch" /\ Fetch("direct", "direct_match", "alias_start")
\* a direct pass that looks the aliases up as well
DirectMatchAlias ==
    spc = "direct_match" /\ Match("direct", TRUE, FALSE, "direct_fetch")
\* lines 249-251
DirectMatch ==
    spc = "direct_match" /\ Match("direct", FALSE, FALSE, "direct_fetch")

\* lines 253-255: iter_num = 1 and the alias pass's scanner
AliasStart ==
    /\ spc = "alias_start"
    /\ iter_num' = 1
    /\ scanpos' = AliasScanner(scanpos)
    /\ directResolved' = Resolved(proteins, muts)
    /\ spc' = "alias_fetch"
    /\ UNCHANGED <<proteins, muts, dataset, chunksize, chunk, total_scores,
                   total_iter, log, call, repeated, ncalls, ingvars>>

\* line 255
AliasFetch == spc = "alias_fetch" /\ Fetch("alias", "alias_match", "done")
\* an alias pass that re-scores the mutations that hold a score
AliasMatchRecalc ==
    spc = "alias_match" /\ Match("alias", TRUE, TRUE, "alias_fetch")
\* lines 256-258
AliasMatch ==
    spc = "alias_match" /\ Match("alias", TRUE, FALSE, "alias_fetch")

\* ------------------------------- calc_mutations_afm_scores, any caller
\* one call with any chunk of the table and any flags
Call(lo, hi, use_alias, recalc) ==
    LET res == calc_mutations_afm_scores(proteins, muts, SubSeq(dataset, lo, hi),
                                         use_alias, recalc)
        new == [lo |-> lo, hi |-> hi, use_alias |-> use_alias,
                recalc |-> recalc, tasks |-> res.tasks, ret |-> res.successful]
    IN  /\ spc = "calls"
        /\ ncalls < MaxCalls
        /\ muts' = res.muts
        /\ call' = new
        /\ repeated' = (/\ ncalls >= 1
                        /\ <<lo, hi, use_alias, recalc>> =
                           <<call.lo, call.hi, call.use_alias, call.recalc>>)
        /\ ncalls' = ncalls + 1
        /\ UNCHANGED <<proteins, dataset, chunksize, spc, scanpos, chunk,
                       iter_num, total_scores, total_iter, log,
                       directResolved, ingvars>>

\* a database built by an earlier run, nothing scored yet, and the table
\* main is not part of the run
NoMain ==
    /\ cmds = <<>>
    /\ run = 0
    /\ acts = <<>>
    /\ mpc = "none"
    /\ ran = <<>>

InitScoring(DBs) ==
    /\ NoMain
    /\ rows = <<>>
    /\ tasks = <<>>
    /\ tst = <<>>
    /\ bpc = "returned"
    /\ skipped = <<>>
    /\ overlap = FALSE
    /\ \E D \in DBs :
          /\ muts = [m \in D |-> NO_SCORE]
          /\ proteins = {m[1] : m \in D}
    /\ dataset \in UNION {[1..n -> DataRow] : n \in 0..MaxData}
    /\ scanpos = 0
    /\ chunk = NoChunk
    /\ iter_num = 1
    /\ total_scores = 0
    /\ total_iter = 0
    /\ log = <<>>
    /\ directResolved = {}
    /\ call = NoCall
    /\ repeated = FALSE
    /\ ncalls = 0

InitScore ==
    /\ InitScoring(SUBSET DBVariants)
    /\ chunksize \in 1..MaxChunk
    /\ spc = "start"

NextScore ==
    \/ ScoreStart
    \/ DirectFetch
    \/ DirectMatch
    \/ AliasStart
    \/ AliasFetch
    \/ AliasMatch

SpecScore == InitScore /\ [][NextScore]_vars

InitCalls ==
    /\ InitScoring({DBVariants})
    /\ chunksize = 1
    /\ spc = "calls"

NextCalls ==
    \E lo \in 1..Len(dataset), hi \in 1..Len(dataset),
       use_alias \in BOOLEAN, recalc \in BOOLEAN :
        lo <= hi /\ Call(lo, hi, use_alias, recalc)

SpecCalls == InitCalls /\ [][NextCalls]_vars

\* a row of the csv; a row without a protein never reaches Protein() or
\* add_mut, so its other cells are left at one value
RowRec == [key : Keys, desc : Descs, fate : Fates]
              \cup {[key |-> NaN, desc |-> "d1", fate |-> "ok"]}

\* no scoring action has run
ScoringIdle ==
    /\ dataset = <<>>
    /\ chunksize = 1
    /\ spc = "idle"
    /\ scanpos = 0
    /\ chunk = NoChunk
    /\ iter_num = 1
    /\ total_scores = 0
    /\ total_iter = 0
    /\ log = <<>>
    /\ directResolved = {}
    /\ call = NoCall
    /\ repeated = FALSE
    /\ ncalls = 0

Init ==
    /\ rows \in UNION {[1..n -> RowRec] : n \in 0..MaxRows}
    /\ tasks = <<>>
    /\ tst = <<>>
    /\ proteins = {}
    /\ muts = <<>>
    /\ bpc = "start"
    /\ skipped = <<>>
    /\ overlap = FALSE
    /\ ScoringIdle
    /\ NoMain

Next ==
    \/ BuildTasks
    \/ \E t \in 1..Len(tasks) : StartTask(t)
    \/ \E t \in 1..Len(tasks) : CreateProtein(t)
    \/ \E t \in 1..Len(tasks) : AddMut(t)
    \/ \E t \in 1..Len(tasks) : RemoveProteinFile(t)
    \/ \E t \in 1..Len(tasks) : RemoveMutFile(t)
    \/ PoolReturns
    \/ PoolRaises

Spec == Init /\ [][Next]_vars

\* ============================================ sequential ingestion
\* the TimeoutError handler of lines 164-168 on a store, run to its end
Handler(st, i) ==
    LET r == rows[i] IN
    IF r.key \notin st.P THEN [st EXCEPT !.crashed = TRUE]
    ELSE IF <<r.key, r.desc>> \notin DOMAIN st.M
         THEN [st EXCEPT !.P = @ \ {r.key}, !.crashed = TRUE]
         ELSE [st EXCEPT !.P = @ \ {r.key},
                         !.M = RemoveVariant(@, r.key, r.desc),
                         !.skipped = Append(@, i)]

\* lines 155-168 for one (idx, row), run to its end
RunRow(st, i) ==
    LET r == rows[i]
        s1 == IF st.created THEN st
              ELSE [st EXCEPT !.P = UpsertProtein(@, r.key), !.created = TRUE]
    IN  IF st.crashed THEN st
        ELSE IF ~st.created /\ r.fate = "p_timeout" THEN Handler(st, i)
        ELSE IF r.fate = "m_timeout" THEN Handler(s1, i)
        ELSE IF r.fate = "m_timeout_file"
             THEN Handler([s1 EXCEPT !.M = AppendVariant(@, r.key, r.desc)], i)
        ELSE IF r.fate = "m_error" THEN [s1 EXCEPT !.crashed = TRUE]
        ELSE [s1 EXCEPT !.M = AppendVariant(@, r.key, r.desc)]

RECURSIVE RunRows(_, _)
RunRows(st, idxs) ==
    IF idxs = <<>> THEN st ELSE RunRows(RunRow(st, Head(idxs)), Tail(idxs))

\* create_new_records on one task, alone, from the store <<P, M>>
RunGroup(store, idxs) ==
    LET end == RunRows([P |-> store[1], M |-> store[2], created |-> FALSE,
                        crashed |-> FALSE, skipped |-> <<>>], idxs)
    IN  <<end.P, end.M>>

\* the tasks run one after the other in the order given
RECURSIVE RunSequential(_, _)
RunSequential(store, ts) ==
    IF ts = <<>> THEN store
    ELSE RunSequential(RunGroup(store, Head(ts)), Tail(ts))

Reverse(s) == [k \in 1..Len(s) |-> s[Len(s) + 1 - k]]

PoolEnded == bpc \in {"returned", "raised"}

\* =============================================================== main
\* the action lists of a command line (--action, nargs="+"), over the two
\* actions main has a branch for
CmdLines == {<<"init-DB">>, <<"score-AFM">>,
             <<"init-DB", "score-AFM">>, <<"score-AFM", "init-DB">>}

\* line 235, for action in args.action: the list is used up, main returns
MainLoopEnds ==
    /\ mpc = "loop"
    /\ acts = <<>>
    /\ mpc' = "exit"
    /\ UNCHANGED <<rows, tasks, tst, proteins, muts, bpc, skipped, overlap,
                   dataset, chunksize, spc, scanpos, chunk, iter_num,
                   total_scores, total_iter, log, directResolved, call,
                   repeated, ncalls, cmds, run, acts, ran>>

\* lines 235-236 and 241: the loop takes the next action and enters its branch
MainNextAction ==
    /\ mpc = "loop"
    /\ acts # <<>>
    /\ acts' = Tail(acts)
    /\ mpc' = Head(acts)
    /\ IF Head(acts) = "init-DB"
       THEN bpc' = "start" /\ spc' = spc
       ELSE spc' = "start" /\ bpc' = bpc
    /\ UNCHANGED <<rows, tasks, tst, proteins, muts, skipped, overlap,
                   dataset, chunksize, scanpos, chunk, iter_num,
                   total_scores, total_iter, log, directResolved, call,
                   repeated, ncalls, cmds, run, ran>>

\* lines 239-240: build_db has returned, return skipped ends main
InitDBReturns ==
    /\ mpc = "init-DB"
    /\ bpc = "returned"
    /\ ran' = Append(ran, "init-DB")
    /\ mpc' = "exit"
    /\ UNCHANGED <<rows, tasks, tst, proteins, muts, bpc, skipped, overlap,
                   dataset, chunksize, spc, scanpos, chunk, iter_num,
                   total_scores, total_iter, log, directResolved, call,
                   repeated, ncalls, cmds, run, acts>>

\* line 239: the exception build_db raised is caught nowhere and ends main
InitDBRaises ==
    /\ mpc = "init-DB"
    /\ bpc = "raised"
    /\ mpc' = "exit"
    /\ UNCHANGED <<rows, tasks, tst, proteins, muts, bpc, skipped, overlap,
                   dataset, chunksize, spc, scanpos, chunk, iter_num,
                   total_scores, total_iter, log, directResolved, call,
                   repeated, ncalls, cmds, run, acts, ran>>

\* line 259: both passes are done, the loop goes on
ScoreAFMEnds ==
    /\ mpc = "score-AFM"
    /\ spc = "done"
    /\ ran' = Append(ran, "score-AFM")
    /\ mpc' = "loop"
    /\ UNCHANGED <<rows, tasks, tst, proteins, muts, bpc, skipped, overlap,
                   dataset, chunksize, spc, scanpos, chunk, iter_num,
                   total_scores, total_iter, log, directResolved, call,
                   repeated, ncalls, cmds, run, acts>>

\* lines 262-267: the program is started again with the next command line,
\* on the store the runs before it left
NextRun ==
    /\ mpc = "exit"
    /\ run < Len(cmds)
    /\ run' = run + 1
    /\ acts' = cmds[run + 1]
    /\ mpc' = "loop"
    /\ ran' = <<>>
    /\ tasks' = <<>>
    /\ tst' = <<>>
    /\ bpc' = "idle"
    /\ skipped' = <<>>
    /\ overlap' = FALSE
    /\ spc' = "idle"
    /\ scanpos' = 0
    /\ chunk' = NoChunk
    /\ iter_num' = 1
    /\ total_scores' = 0
    /\ total_iter' = 0
    /\ log' = <<>>
    /\ directResolved' = {}
    /\ call' = NoCall
    /\ repeated' = FALSE
    /\ ncalls' = 0
    /\ UNCHANGED <<rows, proteins, muts, dataset, chunksize, cmds>>

\* the batch of the end-to-end scenario: X with two variants, Y with one
ScenarioRows(f) ==
    <<[key |-> "X", desc |-> "d1", fate |-> f[1]],
      [key |-> "X", desc |-> "d2", fate |-> f[2]],
      [key |-> "Y", desc |-> "d1", fate |-> f[3]]>>

\* its table: X's first variant under X's uid, Y's variant under Y's alias
ScenarioData ==
    <<[uid |-> "uX", variant |-> "d1", score |-> "0.9"],
      [uid |-> "aY", variant |-> "d1", score |-> "0.1"]>>

InitMain ==
    /\ cmds \in UNION {[1..n -> CmdLines] : n \in 1..MaxRuns}
    /\ run = 1
    /\ acts = cmds[1]
    /\ mpc = "loop"
    /\ ran = <<>>
    /\ rows \in {ScenarioRows(f) : f \in [1..3 -> Fates]}
    /\ tasks = <<>>
    /\ tst = <<>>
    /\ proteins = {}
    /\ muts = <<>>
    /\ bpc = "idle"
    /\ skipped = <<>>
    /\ overlap = FALSE
    /\ dataset \in {ScenarioData, Reverse(ScenarioData)}
    /\ chunksize \in 1..MaxChunk
    /\ spc = "idle"
    /\ scanpos = 0
    /\ chunk = NoChunk
    /\ iter_num = 1
    /\ total_scores = 0
    /\ total_iter = 0
    /\ log = <<>>
    /\ directResolved = {}
    /\ call = NoCall
    /\ repeated = FALSE
    /\ ncalls = 0

NextMain ==
    \/ MainLoopEnds
    \/ MainNextAction
    \/ InitDBReturns
    \/ InitDBRaises
    \/ ScoreAFMEnds
    \/ NextRun
    \/ Next
    \/ NextScore

SpecMain == InitMain /\ [][NextMain]_vars

\* ============================================================== claims
\* C1 (as stated): the tasks handed to the pool hold every input row exactly
\* once, rows of one protein share a task, no two tasks hold the same protein,
\* and rows keep their relative order inside a task.
C1_PartitionOfEveryRow ==
    bpc # "start" =>
        /\ \A i \in 1..Len(rows) :
              Cardinality({<<t, k>> \in (1..Len(tasks)) \X (1..MaxRows) :
                              k <= Len(tasks[t]) /\ tasks[t][k] = i}) = 1
        /\ \A t \in 1..Len(tasks), u \in 1..Len(tasks) :
              \A k \in 1..Len(tasks[t]), l \in 1..Len(tasks[u]) :
                 (rows[tasks[t][k]].key = rows[tasks[u][l]].key) <=> (t = u)
        /\ \A t \in 1..Len(tasks) :
              \A k \in 1..Len(tasks[t]), l \in 1..Len(tasks[t]) :
                 k < l => tasks[t][k] < tasks[t][l]

\* C2: when the pool has ended, the store is the one left by running the
\* tasks one after the other, in task order and in the reverse order.
C2_RaceFree ==
    PoolEnded =>
        /\ <<proteins, muts>> = RunSequential(<<{}, <<>>>>, tasks)
        /\ <<proteins, muts>> = RunSequential(<<{}, <<>>>>, Reverse(tasks))

\* two tasks of different proteins overlapped in the pool, one of them took
\* the timeout path, and both proteins' rows left records
C2_Witness ==
    /\ PoolEnded
    /\ overlap
    /\ \E t \in 1..Len(tasks) : tst[t].skipped # <<>>
    /\ \E m \in DOMAIN muts : m[1] = "Y"
    /\ "Y" \in proteins

\* C3 (as stated): a row whose processing raised is in the task's skipped
\* list once its processing is over, and no task is ended by a raising row.
C3_FailedRowSkippedGroupGoesOn ==
    \A t \in 1..Len(tasks) :
        /\ tst[t].pc # "crashed"
        /\ tst[t].pc \in {"row", "addmut", "done"} =>
              \A i \in tst[t].failed \ {IF tst[t].pc = "done" THEN 0 ELSE CurIdx(t)} :
                 i \in Range(tst[t].skipped)

\* C4 (as stated): when a task has crashed, every other task is run to its
\* end and build_db returns its report.
C4_CrashIsPartialSuccess ==
    (PoolEnded /\ \E t \in 1..Len(tasks) : tst[t].pc = "crashed") =>
        /\ bpc = "returned"
        /\ \A t \in 1..Len(tasks) : Finished(t)

\* C5 (as stated): a returned report names every row without a protein.
C5_KeylessRowsReported ==
    bpc = "returned" =>
        \A i \in 1..Len(rows) : rows[i].key = NaN => i \in Range(skipped)

\* C6 (as stated): over any sequence of calls a mutation that holds a score
\* keeps holding one, and its value changes only in a call with recalc.
C6_ResolvedNeverUnscored ==
    [][\A m \in DOMAIN muts :
          has_afm(muts, m) =>
             /\ has_afm(muts', m)
             /\ muts'[m] # muts[m] => call'.recalc]_vars

SameArgs(c, d) ==
    <<c.lo, c.hi, c.use_alias, c.recalc>> = <<d.lo, d.hi, d.use_alias, d.recalc>>

\* C7: a call that repeats the chunk and use_alias of the call before it,
\* without recalc, leaves every score as it was and returns 0.
C7_RepeatedCallNoOp ==
    [][(ncalls >= 1 /\ ncalls' = ncalls + 1 /\ SameArgs(call', call)
           /\ ~call'.recalc)
          => (muts' = muts /\ call'.ret = 0)]_vars

\* the call was repeated after a first call that resolved a mutation and left
\* another one without a score
C7_Witness ==
    /\ repeated
    /\ ncalls = 2
    /\ ~call.recalc
    /\ Resolved(proteins, muts) # {}
    /\ call.tasks # {}

\* C8: in main's two passes a mutation that holds a score is in no later
\* call's tasks and its score is not changed.
C8_ResolvedLeftAlone ==
    [][\A m \in DOMAIN muts :
          has_afm(muts, m) =>
             /\ muts'[m] = muts[m]
             /\ ncalls' # ncalls => m \notin call'.tasks]_vars

\* an alias-pass call whose chunk held a row with another score for a
\* mutation that was resolved before it
C8_Witness ==
    /\ call.use_alias
    /\ \E m \in Resolved(proteins, muts) :
          LET ch == SubSeq(dataset, call.lo, call.hi)
          IN  /\ m \notin call.tasks
              /\ score_mutation_afm(m, ch, uid_index(ch), TRUE)
                    \notin {None, muts[m]}

\* C9: from the start of the alias pass on, every mutation the direct pass
\* resolved is resolved.
C9_AliasExtendsCoverage ==
    spc \in {"alias_fetch", "alias_match", "done"} =>
        directResolved \subseteq Resolved(proteins, muts)

\* the alias pass has ended and resolved a mutation the direct pass left
C9_Witness ==
    /\ spc = "done"
    /\ directResolved # {}
    /\ Resolved(proteins, muts) \ directResolved # {}

NChunks == (Len(dataset) + chunksize - 1) \div chunksize
ChunkNo(k) == [lo |-> (k - 1) * chunksize + 1,
               hi |-> Min(k * chunksize, Len(dataset))]
PassLog(pass) ==
    Flatten([k \in 1..NChunks |->
               <<[ev |-> "fetch", pass |-> pass,
                  lo |-> ChunkNo(k).lo, hi |-> ChunkNo(k).hi],
                 [ev |-> "match", pass |-> pass,
                  lo |-> ChunkNo(k).lo, hi |-> ChunkNo(k).hi]>>])
ExpectedLog == PassLog("direct") \o PassLog("alias")

\* C10: the chunks are fetched and matched one at a time in row order, each
\* matched before the next is fetched; the alias pass starts after the last
\* chunk of the direct pass and goes through the same chunks from row 0.
C10_PassOrder ==
    /\ Len(log) <= Len(ExpectedLog)
    /\ log = SubSeq(ExpectedLog, 1, Len(log))
    /\ spc = "done" => log = ExpectedLog
    /\ spc \in {"direct_fetch", "direct_match"} => Len(log) <= Len(PassLog("direct"))
    /\ spc \in {"alias_start", "alias_fetch", "alias_match", "done"}
          => Len(log) >= Len(PassLog("direct"))

\* both passes went through two chunks each
C10_Witness ==
    /\ spc = "done"
    /\ NChunks >= 2
    /\ Len(log) = 4 * NChunks

\* the mutations a call found without a score and left with one
NewlyResolved ==
    {m \in DOMAIN muts : ~has_afm(muts, m) /\ has_afm(muts', m)}

\* C11 (as stated): whatever recalc and use_alias are, a call returns the
\* number of mutations that had no score before it and hold one after it.
C11_ReturnsNewlyResolved ==
    [][ncalls' = ncalls + 1 => call'.ret = Cardinality(NewlyResolved)]_vars

\* C11 (amended): a call returns the number of its tasks the chunk held a
\* score for; without recalc that is the number of mutations it newly
\* resolved; a mutation without a score and without a match in the chunk
\* stays without a score and is in the tasks of the call that follows.
C11_ReturnsMatchedTasks ==
    [][ncalls' = ncalls + 1 =>
          LET ch == SubSeq(dataset, call'.lo, call'.hi)
              unmatched == {m \in DOMAIN muts :
                              /\ ~has_afm(muts, m)
                              /\ score_mutation_afm(m, ch, uid_index(ch),
                                                    call'.use_alias) = None}
          IN  /\ call'.ret = Cardinality({m \in call'.tasks : has_afm(muts', m)})
              /\ ~call'.recalc => call'.ret = Cardinality(NewlyResolved)
              /\ \A m \in unmatched : ~has_afm(muts', m)
              /\ ncalls >= 1 =>
                    \A m \in call.tasks : ~has_afm(muts, m) => m \in call'.tasks]_vars

\* a second call, with recalc, matched some of its tasks and left others
\* without a score
C11_Witness ==
    /\ ncalls = 2
    /\ call.recalc
    /\ call.ret >= 1
    /\ call.ret < Cardinality(call.tasks)
    /\ \E m \in call.tasks : ~has_afm(muts, m)

\* the indices of the rows on which Protein or add_mut raised, over all tasks
FailedRows == UNION {tst[t].failed : t \in 1..Len(tst)}

\* C12: the list build_db returns holds the index of every row that failed
\* in some task, each once, and no other index; it is empty exactly when no
\* row failed; the order in which the tasks ended does not matter.
C12_ReportIsTheFailedRows ==
    bpc = "returned" =>
        /\ Range(skipped) = FailedRows
        /\ Len(skipped) = Cardinality(FailedRows)
        /\ (skipped = <<>>) <=> (FailedRows = {})
        /\ \A i \in Range(skipped) : i \in 1..Len(rows)

\* build_db returned after rows of two tasks timed out and a third row was
\* stored
C12_Witness ==
    /\ bpc = "returned"
    /\ Len(skipped) >= 2
    /\ Len(rows) > Len(skipped)
    /\ DOMAIN muts # {}

\* C13 (as stated): no step of the ingestion deletes a protein record, and
\* a mutation record is deleted only if every row that names it timed out:
\* after a timeout on a later row of a task, the protein record and the
\* mutation records of the other rows are still there.
C13_SubjectNeverDeleted ==
    [][/\ proteins \subseteq proteins'
       /\ \A m \in DOMAIN muts \ DOMAIN muts' :
             \A i \in 1..Len(rows) :
                <<rows[i].key, rows[i].desc>> = m => i \in FailedRows]_vars

\* C14 (as stated): at most one chunk is held at any point of a pass: when
\* the scanner produces a chunk the name chunk is bound to none, and once
\* the call on a chunk has returned the chunk is referenced no more, after
\* the end of the pass included.
C14_OneChunkHeld ==
    [][/\ scanpos' > scanpos => chunk = NoChunk
       /\ ncalls' = ncalls + 1 => chunk' = NoChunk
       /\ spc' \in {"alias_start", "done"} => chunk' = NoChunk]_vars

\* the number of chunks the scanner of a pass has yielded
Yielded(pass) ==
    Cardinality({k \in 1..Len(log) : log[k].ev = "fetch" /\ log[k].pass = pass})

\* C15: the total main reports is the least number of chunks of chunksize
\* rows that cover the table, chunksize being the number given to the
\* scanner; each pass yields that many chunks, and the iteration number in
\* a call's label is never above the total.
C15_TotalIterIsChunkCount ==
    spc \in {"direct_fetch", "direct_match", "alias_start", "alias_fetch",
             "alias_match", "done"} =>
        /\ total_iter * chunksize >= Len(dataset)
        /\ (total_iter - 1) * chunksize < Len(dataset)
        /\ spc \in {"direct_match", "alias_match"} => iter_num <= total_iter
        /\ spc \in {"alias_start", "alias_fetch", "alias_match", "done"}
              => Yielded("direct") = total_iter
        /\ spc = "done" => Yielded("alias") = total_iter

\* both passes ended on a table whose last chunk was shorter than chunksize
C15_Witness ==
    /\ spc = "done"
    /\ Len(dataset) % chunksize # 0
    /\ total_iter >= 1
    /\ Yielded("alias") = total_iter

\* the command line of the run in progress
CmdLine == cmds[run]

\* C17 (as stated): main carries out the actions of its command line in
\* the order listed, each to its end before the next: a run that ended
\* without an exception carried out every action listed, and a run of
\* init-DB followed by score-AFM ended with both scoring passes done.
C17_EveryListedActionRuns ==
    (mpc = "exit" /\ bpc # "raised") =>
        /\ ran = CmdLine
        /\ CmdLine = <<"init-DB", "score-AFM">> => spc = "done"

\* the scenario: no call times out or fails, and the program is run once
\* with init-DB and then once with score-AFM
Scenario ==
    /\ \A i \in 1..Len(rows) : rows[i].fate = "ok"
    /\ cmds = <<<<"init-DB">>, <<"score-AFM">>>>

\* C16: in the scenario, the ingestion leaves both proteins and the three
\* mutations, none with a score; at the end of the direct pass X's first
\* mutation alone holds a score; at the end of the alias pass Y's mutation
\* holds one too and X's second mutation still has none.
C16_EndToEnd ==
    Scenario =>
        /\ (run = 1 /\ mpc = "exit") =>
              /\ bpc = "returned"
              /\ skipped = <<>>
              /\ proteins = {"X", "Y"}
              /\ muts = [m \in DBVariants |-> NO_SCORE]
        /\ (run = 2 /\ spc = "alias_start") =>
              /\ Resolved(proteins, muts) = {<<"X", "d1">>}
              /\ muts[<<"X", "d1">>] = "0.9"
              /\ DOMAIN muts = DBVariants
        /\ (run = 2 /\ spc = "done") =>
              /\ Resolved(proteins, muts) = {<<"X", "d1">>, <<"Y", "d1">>}
              /\ muts[<<"X", "d1">>] = "0.9"
              /\ muts[<<"Y", "d1">>] = "0.1"
              /\ DOMAIN muts = DBVariants
              /\ proteins = {"X", "Y"}

\* the scenario's second run has ended
C16_Witness ==
    /\ Scenario
    /\ run = 2
    /\ mpc = "exit"
    /\ spc = "done"
    /\ ran = <<"score-AFM">>
    /\ Resolved(proteins, muts) = {<<"X", "d1">>, <<"Y", "d1">>}

=============================================================================
